---- MODULE Spec2Model ----
(***************************************************************************)
(* Model of the Play Store scraper API (backend/main.py): the category     *)
(* registry, the keyword expander, the numeric normalizer _parse_int, the  *)
(* search aggregator _gather_category_results and the two request          *)
(* handlers scrape_category and deep_scan.                                 *)
(*                                                                         *)
(* Python strings on which the code does character work (category keys,    *)
(* search phrases, numeric texts) are sequences of one-character strings.  *)
(***************************************************************************)
EXTENDS Integers, Sequences, FiniteSets, TLC

VARIABLES
  pc,            \* position of the request being served
  req,           \* the request being served: its endpoint and parameters; of
                 \* category_name, the normalized form
  keywords,      \* _gather_category_results: keywords
  kw_index,      \* number of keywords the gather loop has gone through
  calls,         \* provider search calls issued for this request, in order
  search_error,  \* the exception of the latest search call, "" if it returned
  apps_batch,    \* _gather_category_results: apps_batch of the latest call
  search_failed, \* some search call of this request has raised (and was logged)
  raw_results,   \* _gather_category_results: raw_results
  deduped,       \* _gather_category_results: deduped (insertion-ordered dict)
  resp,          \* the HTTP response of the request
  value,         \* _parse_int: the argument
  parsed,        \* _parse_int: the outcome
  built,         \* _build_category_keywords: keywords (insertion-ordered dict)
  variant_index, \* number of variants of the category at hand gone through
  unique_variants, \* the variants of the category at hand kept so far
  slots          \* the locals of each of the requests served side by side

vars == <<pc, req, keywords, kw_index, calls, search_error, apps_batch,
          search_failed, raw_results, deduped, resp, value, parsed,
          built, variant_index, unique_variants, slots>>

\* the locals of the startup and of the requests served side by side
beside == <<built, variant_index, unique_variants, slots>>

(***************************************************************************)
(* Bounds of the model.                                                    *)
(***************************************************************************)
MaxRaw == 3        \* records the provider hands out during one scrape request
MaxScan == 3       \* records the provider hands out to one deep scan
MaxLimit == 2      \* largest limit a scrape request is tried with
MaxNameLen == 2    \* length of the exhaustively tried category names
MaxStrLen == 3     \* length of the exhaustively tried numeric texts
MaxSlotRaw == 2    \* records handed out to one of the requests served side by side

(***************************************************************************)
(* Python string operations.                                               *)
(***************************************************************************)
UpperChars == <<"A","B","C","D","E","F","G","H","I","J","K","L","M",
                "N","O","P","Q","R","S","T","U","V","W","X","Y","Z">>
LowerChars == <<"a","b","c","d","e","f","g","h","i","j","k","l","m",
                "n","o","p","q","r","s","t","u","v","w","x","y","z">>
Digits == <<"0","1","2","3","4","5","6","7","8","9">>

LowerOf(c) ==
  IF \E i \in 1..Len(UpperChars) : UpperChars[i] = c
  THEN LowerChars[CHOOSE i \in 1..Len(UpperChars) : UpperChars[i] = c]
  ELSE c

\* str.lower()
Lower(s) == [i \in 1..Len(s) |-> LowerOf(s[i])]

\* str.replace(c, r) for a one-character c
RECURSIVE Replace(_, _, _)
Replace(s, c, r) ==
  IF s = <<>> THEN <<>>
  ELSE (IF Head(s) = c THEN r ELSE <<Head(s)>>) \o Replace(Tail(s), c, r)

IsSpace(c) == c \in {" ", "\t", "\n"}

RECURSIVE LStrip(_)
LStrip(s) ==
  IF s # <<>> /\ IsSpace(Head(s)) THEN LStrip(Tail(s)) ELSE s

RECURSIVE RStrip(_)
RStrip(s) ==
  IF s # <<>> /\ IsSpace(s[Len(s)]) THEN RStrip(SubSeq(s, 1, Len(s) - 1)) ELSE s

\* str.strip()
Strip(s) == RStrip(LStrip(s))

\* s[:n]
Prefix(s, n) == SubSeq(s, 1, IF n < Len(s) THEN n ELSE Len(s))

\* s[:-1]
DropLast(s) == SubSeq(s, 1, Len(s) - 1)

\* s.startswith(p)
StartsWith(s, p) == Len(p) <= Len(s) /\ SubSeq(s, 1, Len(p)) = p

\* s.endswith(p)
EndsWith(s, p) ==
  Len(p) <= Len(s) /\ SubSeq(s, Len(s) - Len(p) + 1, Len(s)) = p

\* p in s  (substring test)
Contains(s, p) ==
  \E i \in 0..(Len(s) - Len(p)) : SubSeq(s, i + 1, i + Len(p)) = p

(***************************************************************************)
(* Insertion-ordered dicts are sequences of [key, ...] entries with        *)
(* pairwise different keys.                                                *)
(***************************************************************************)
HasKey(d, k) == \E i \in 1..Len(d) : d[i].key = k

IndexOfKey(d, k) == CHOOSE i \in 1..Len(d) : d[i].key = k

\* list(d.keys())
Keys(d) == [i \in 1..Len(d) |-> d[i].key]

\* {**a, **b}
RECURSIVE DictMerge(_, _)
DictMerge(a, b) ==
  IF b = <<>> THEN a
  ELSE DictMerge(
         IF HasKey(a, Head(b).key)
         THEN [a EXCEPT ![IndexOfKey(a, Head(b).key)] = Head(b)]
         ELSE Append(a, Head(b)),
         Tail(b))

\* list(dict.fromkeys(x for x in xs if x))
RECURSIVE FromKeys(_, _)
FromKeys(xs, acc) ==
  IF xs = <<>> THEN acc
  ELSE FromKeys(Tail(xs),
                IF Head(xs) = <<>> \/ (\E i \in 1..Len(acc) : acc[i] = Head(xs))
                THEN acc ELSE Append(acc, Head(xs)))

(***************************************************************************)
(* The category registry.                                                  *)
(***************************************************************************)
APP_CATEGORY_QUERIES ==
  <<
     [key |-> <<"a","r","t","_","d","e","s","i","g","n">>,
      phrase |-> <<"a","r","t"," ","a","n","d"," ","d","e","s","i","g","n"," ","d","r","a","w","i","n","g"," ","a","p","p","s">>],
     [key |-> <<"a","u","t","o">>,
      phrase |-> <<"c","a","r"," ","m","a","i","n","t","e","n","a","n","c","e"," ","a","n","d"," ","a","u","t","o"," ","c","a","r","e"," ","a","p","p","s">>],
     [key |-> <<"b","e","a","u","t","y">>,
      phrase |-> <<"b","e","a","u","t","y"," ","t","u","t","o","r","i","a","l","s"," ","a","n","d"," ","m","a","k","e","u","p"," ","a","p","p","s">>],
     [key |-> <<"b","o","o","k","s">>,
      phrase |-> <<"e","b","o","o","k"," ","r","e","a","d","e","r"," ","a","n","d"," ","b","o","o","k"," ","a","p","p","s">>],
     [key |-> <<"b","u","s","i","n","e","s","s">>,
      phrase |-> <<"s","m","a","l","l"," ","b","u","s","i","n","e","s","s"," ","p","r","o","d","u","c","t","i","v","i","t","y"," ","a","p","p","s">>],
     [key |-> <<"c","o","m","i","c","s">>,
      phrase |-> <<"d","i","g","i","t","a","l"," ","c","o","m","i","c","s"," ","r","e","a","d","e","r"," ","a","p","p","s">>],
     [key |-> <<"c","o","m","m","u","n","i","c","a","t","i","o","n">>,
      phrase |-> <<"m","e","s","s","a","g","i","n","g"," ","a","n","d"," ","c","a","l","l","i","n","g"," ","a","p","p","s">>],
     [key |-> <<"e","d","u","c","a","t","i","o","n">>,
      phrase |-> <<"e","d","u","c","a","t","i","o","n"," ","l","e","a","r","n","i","n","g"," ","a","p","p","s">>],
     [key |-> <<"e","n","t","e","r","t","a","i","n","m","e","n","t">>,
      phrase |-> <<"e","n","t","e","r","t","a","i","n","m","e","n","t"," ","s","t","r","e","a","m","i","n","g"," ","a","p","p","s">>],
     [key |-> <<"e","v","e","n","t","s">>,
      phrase |-> <<"e","v","e","n","t"," ","t","i","c","k","e","t","s"," ","a","n","d"," ","p","l","a","n","n","e","r"," ","a","p","p","s">>],
     [key |-> <<"f","i","n","a","n","c","e">>,
      phrase |-> <<"p","e","r","s","o","n","a","l"," ","f","i","n","a","n","c","e"," ","b","u","d","g","e","t","i","n","g"," ","a","p","p","s">>],
     [key |-> <<"f","o","o","d">>,
      phrase |-> <<"f","o","o","d"," ","d","e","l","i","v","e","r","y"," ","a","n","d"," ","r","e","c","i","p","e"," ","a","p","p","s">>],
     [key |-> <<"h","e","a","l","t","h">>,
      phrase |-> <<"h","e","a","l","t","h"," ","a","n","d"," ","f","i","t","n","e","s","s"," ","w","o","r","k","o","u","t"," ","a","p","p","s">>],
     [key |-> <<"h","o","u","s","e">>,
      phrase |-> <<"h","o","m","e"," ","d","e","s","i","g","n"," ","a","n","d"," ","r","e","a","l"," ","e","s","t","a","t","e"," ","a","p","p","s">>],
     [key |-> <<"l","i","b","r","a","r","i","e","s">>,
      phrase |-> <<"d","e","m","o"," ","a","n","d"," ","l","i","b","r","a","r","i","e","s"," ","d","e","v","e","l","o","p","e","r"," ","a","p","p","s">>],
     [key |-> <<"l","i","f","e","s","t","y","l","e">>,
      phrase |-> <<"l","i","f","e","s","t","y","l","e"," ","i","n","s","p","i","r","a","t","i","o","n"," ","a","p","p","s">>],
     [key |-> <<"m","a","p","s">>,
      phrase |-> <<"m","a","p","s"," ","a","n","d"," ","n","a","v","i","g","a","t","i","o","n"," ","g","p","s"," ","a","p","p","s">>],
     [key |-> <<"m","e","d","i","c","a","l">>,
      phrase |-> <<"m","e","d","i","c","a","l"," ","r","e","f","e","r","e","n","c","e"," ","a","p","p","s">>],
     [key |-> <<"m","u","s","i","c">>,
      phrase |-> <<"m","u","s","i","c"," ","s","t","r","e","a","m","i","n","g"," ","a","p","p","s">>],
     [key |-> <<"n","e","w","s">>,
      phrase |-> <<"n","e","w","s"," ","a","n","d"," ","m","a","g","a","z","i","n","e","s"," ","a","p","p","s">>],
     [key |-> <<"p","a","r","e","n","t","i","n","g">>,
      phrase |-> <<"p","a","r","e","n","t","i","n","g"," ","b","a","b","y"," ","t","r","a","c","k","e","r"," ","a","p","p","s">>],
     [key |-> <<"p","e","r","s","o","n","a","l","i","z","a","t","i","o","n">>,
      phrase |-> <<"a","n","d","r","o","i","d"," ","l","a","u","n","c","h","e","r"," ","p","e","r","s","o","n","a","l","i","z","a","t","i","o","n"," ","a","p","p","s">>],
     [key |-> <<"p","h","o","t","o","g","r","a","p","h","y">>,
      phrase |-> <<"p","h","o","t","o"," ","e","d","i","t","o","r"," ","c","a","m","e","r","a"," ","a","p","p","s">>],
     [key |-> <<"p","r","o","d","u","c","t","i","v","i","t","y">>,
      phrase |-> <<"p","r","o","d","u","c","t","i","v","i","t","y"," ","t","a","s","k"," ","m","a","n","a","g","e","r"," ","a","p","p","s">>],
     [key |-> <<"s","h","o","p","p","i","n","g">>,
      phrase |-> <<"s","h","o","p","p","i","n","g"," ","d","e","a","l","s"," ","a","p","p","s">>],
     [key |-> <<"s","o","c","i","a","l">>,
      phrase |-> <<"s","o","c","i","a","l"," ","m","e","d","i","a"," ","c","o","m","m","u","n","i","t","y"," ","a","p","p","s">>],
     [key |-> <<"s","p","o","r","t","s">>,
      phrase |-> <<"s","p","o","r","t","s"," ","s","c","o","r","e","s"," ","a","p","p","s">>],
     [key |-> <<"t","o","o","l","s">>,
      phrase |-> <<"a","n","d","r","o","i","d"," ","u","t","i","l","i","t","y"," ","t","o","o","l","s"," ","a","p","p","s">>],
     [key |-> <<"t","r","a","v","e","l">>,
      phrase |-> <<"t","r","a","v","e","l"," ","p","l","a","n","n","i","n","g"," ","a","n","d"," ","b","o","o","k","i","n","g"," ","a","p","p","s">>],
     [key |-> <<"v","i","d","e","o">>,
      phrase |-> <<"v","i","d","e","o"," ","s","t","r","e","a","m","i","n","g"," ","a","n","d"," ","p","l","a","y","e","r"," ","a","p","p","s">>],
     [key |-> <<"w","e","a","t","h","e","r">>,
      phrase |-> <<"w","e","a","t","h","e","r"," ","f","o","r","e","c","a","s","t"," ","a","p","p","s">>],
     [key |-> <<"w","o","r","k">>,
      phrase |-> <<"w","o","r","k"," ","p","r","o","f","i","l","e"," ","e","n","t","e","r","p","r","i","s","e"," ","a","p","p","s">>]
  >>

GAME_CATEGORY_QUERIES ==
  <<
     [key |-> <<"a","c","t","i","o","n">>,
      phrase |-> <<"a","c","t","i","o","n"," ","g","a","m","e","s"," ","a","n","d","r","o","i","d">>],
     [key |-> <<"a","d","v","e","n","t","u","r","e">>,
      phrase |-> <<"a","d","v","e","n","t","u","r","e"," ","g","a","m","e","s"," ","a","n","d","r","o","i","d">>],
     [key |-> <<"a","r","c","a","d","e">>,
      phrase |-> <<"a","r","c","a","d","e"," ","g","a","m","e","s"," ","a","n","d","r","o","i","d">>],
     [key |-> <<"b","o","a","r","d">>,
      phrase |-> <<"b","o","a","r","d"," ","g","a","m","e","s"," ","a","n","d","r","o","i","d">>],
     [key |-> <<"c","a","r","d">>,
      phrase |-> <<"c","a","r","d"," ","g","a","m","e","s"," ","a","n","d","r","o","i","d">>],
     [key |-> <<"c","a","s","u","a","l">>,
      phrase |-> <<"c","a","s","u","a","l"," ","g","a","m","e","s"," ","a","n","d","r","o","i","d">>],
     [key |-> <<"e","d","u","c","a","t","i","o","n","a","l","_","g","a","m","e">>,
      phrase |-> <<"e","d","u","c","a","t","i","o","n","a","l"," ","g","a","m","e","s"," ","f","o","r"," ","k","i","d","s">>],
     [key |-> <<"m","u","s","i","c","_","g","a","m","e">>,
      phrase |-> <<"m","u","s","i","c"," ","r","h","y","t","h","m"," ","g","a","m","e","s"," ","a","n","d","r","o","i","d">>],
     [key |-> <<"p","u","z","z","l","e">>,
      phrase |-> <<"p","u","z","z","l","e"," ","g","a","m","e","s"," ","a","n","d","r","o","i","d">>],
     [key |-> <<"r","a","c","i","n","g">>,
      phrase |-> <<"r","a","c","i","n","g"," ","g","a","m","e","s"," ","a","n","d","r","o","i","d">>],
     [key |-> <<"r","o","l","e","_","p","l","a","y","i","n","g">>,
      phrase |-> <<"r","o","l","e"," ","p","l","a","y","i","n","g"," ","r","p","g"," ","g","a","m","e","s"," ","a","n","d","r","o","i","d">>],
     [key |-> <<"s","i","m","u","l","a","t","i","o","n">>,
      phrase |-> <<"s","i","m","u","l","a","t","i","o","n"," ","g","a","m","e","s"," ","a","n","d","r","o","i","d">>],
     [key |-> <<"s","p","o","r","t","s","_","g","a","m","e">>,
      phrase |-> <<"s","p","o","r","t","s"," ","g","a","m","e","s"," ","a","n","d","r","o","i","d">>],
     [key |-> <<"s","t","r","a","t","e","g","y">>,
      phrase |-> <<"s","t","r","a","t","e","g","y"," ","g","a","m","e","s"," ","a","n","d","r","o","i","d">>],
     [key |-> <<"t","r","i","v","i","a">>,
      phrase |-> <<"t","r","i","v","i","a"," ","q","u","i","z"," ","g","a","m","e","s"," ","a","n","d","r","o","i","d">>]
  >>

CATEGORY_QUERIES == DictMerge(APP_CATEGORY_QUERIES, GAME_CATEGORY_QUERIES)

PER_KEYWORD_HITS == 200

\* variants whose second and third entries have changed places
VariantsBestFirst(category, base_phrase) ==
  LET readable == Replace(category, "_", <<" ">>)
  IN  << base_phrase,
         <<"b","e","s","t"," ">> \o readable \o <<" ","a","p","p","s">>,
         readable \o <<" ","a","p","p","s">>,
         <<"p","o","p","u","l","a","r"," ">> \o readable \o <<" ","a","p","p","s">>,
         <<"t","o","p"," ">> \o readable
            \o <<" ","a","n","d","r","o","i","d"," ","a","p","p","s">>,
         readable \o <<" ","a","p","p"," ","d","o","w","n","l","o","a","d">> >>

(***************************************************************************)
(* The keyword expander.                                                   *)
(***************************************************************************)
Variants(category, base_phrase) ==
  LET readable == Replace(category, "_", <<" ">>)
  IN  << base_phrase,
         readable \o <<" ","a","p","p","s">>,
         <<"b","e","s","t"," ">> \o readable \o <<" ","a","p","p","s">>,
         <<"p","o","p","u","l","a","r"," ">> \o readable \o <<" ","a","p","p","s">>,
         <<"t","o","p"," ">> \o readable
            \o <<" ","a","n","d","r","o","i","d"," ","a","p","p","s">>,
         readable \o <<" ","a","p","p"," ","d","o","w","n","l","o","a","d">> >>

Expand(queries) ==
  [i \in 1..Len(queries) |->
     [key |-> queries[i].key,
      keywords |-> FromKeys(Variants(queries[i].key, queries[i].phrase), <<>>)]]

_build_category_keywords == Expand(CATEGORY_QUERIES)

CATEGORY_KEYWORDS == _build_category_keywords

\* d.get(key, [])
GetKeywords(d, key) ==
  IF HasKey(d, key) THEN d[IndexOfKey(d, key)].keywords ELSE <<>>

\* CATEGORY_KEYWORDS.get(category, [])
KeywordsOf(category) == GetKeywords(CATEGORY_KEYWORDS, category)

(***************************************************************************)
(* Python values handed to _parse_int.  t is the type; b the value of a    *)
(* bool; n the value of an int, or ten times the value of a finite float;  *)
(* fc the class of a float ("finite", "inf", "-inf", "nan"), and "beyond"  *)
(* for an int above the integers of the model; s the text of a str.        *)
(***************************************************************************)
PyNone == [t |-> "NoneType", b |-> FALSE, n |-> 0, fc |-> "", s |-> <<>>]
PyBool(b) == [t |-> "bool", b |-> b, n |-> 0, fc |-> "", s |-> <<>>]
PyInt(n) == [t |-> "int", b |-> FALSE, n |-> n, fc |-> "", s |-> <<>>]
PyBigInt == [t |-> "int", b |-> FALSE, n |-> 0, fc |-> "beyond", s |-> <<>>]
PyFloat(tenths) == [t |-> "float", b |-> FALSE, n |-> tenths, fc |-> "finite", s |-> <<>>]
PyNonFinite(fc) == [t |-> "float", b |-> FALSE, n |-> 0, fc |-> fc, s |-> <<>>]
PyStr(s) == [t |-> "str", b |-> FALSE, n |-> 0, fc |-> "", s |-> s]
PyList == [t |-> "list", b |-> FALSE, n |-> 0, fc |-> "", s |-> <<>>]

\* the outcome of a call: a returned value, or the exception that escaped
Return(v) == [raised |-> "", ret |-> v]
Raise(exc) == [raised |-> exc, ret |-> PyNone]

(***************************************************************************)
(* float(text) and int(float * multiplier).  A float read from a text is   *)
(* the decimal m * 10^e, or a non-finite class.                            *)
(***************************************************************************)
IsDigit(c) == \E i \in 1..Len(Digits) : Digits[i] = c

DigitVal(c) == (CHOOSE i \in 1..Len(Digits) : Digits[i] = c) - 1

AllDigits(s) == \A i \in 1..Len(s) : IsDigit(s[i])

RECURSIVE DigitsVal(_)
DigitsVal(s) ==
  IF s = <<>> THEN 0 ELSE 10 * DigitsVal(DropLast(s)) + DigitVal(s[Len(s)])

RECURSIVE Pow10(_)
Pow10(k) == IF k = 0 THEN 1 ELSE 10 * Pow10(k - 1)

RECURSIVE NumDigits(_)
NumDigits(n) == IF n < 10 THEN 1 ELSE 1 + NumDigits(n \div 10)

RECURSIVE LeadingTwo(_)
LeadingTwo(n) == IF n < 100 THEN (IF n < 10 THEN 10 * n ELSE n) ELSE LeadingTwo(n \div 10)

Abs(n) == IF n < 0 THEN -n ELSE n

\* position of the first c in s, 0 when there is none
FirstIndex(s, c) ==
  IF \E i \in 1..Len(s) : s[i] = c
  THEN CHOOSE i \in 1..Len(s) : s[i] = c /\ \A j \in 1..(i - 1) : s[j] # c
  ELSE 0

\* an underscore is a digit separator: it stands between two digits
ValidUnderscores(s) ==
  \A i \in 1..Len(s) :
    s[i] = "_" => i > 1 /\ i < Len(s) /\ IsDigit(s[i - 1]) /\ IsDigit(s[i + 1])

NotAFloat == [ok |-> FALSE, fc |-> "", m |-> 0, e |-> 0]
FiniteFloat(m, e) == [ok |-> TRUE, fc |-> "finite", m |-> m, e |-> e]
NonFiniteFloat(fc) == [ok |-> TRUE, fc |-> fc, m |-> 0, e |-> 0]

\* digits [. digits] with at least one digit, times 10^exp10
Decimal(ip, fp, negative, exp10) ==
  IF AllDigits(ip) /\ AllDigits(fp) /\ Len(ip) + Len(fp) >= 1
  THEN FiniteFloat((IF negative THEN -1 ELSE 1) * DigitsVal(ip \o fp),
                   exp10 - Len(fp))
  ELSE NotAFloat

SplitAtDot(s, dot, negative, exp10) ==
  IF dot = 0 THEN Decimal(s, <<>>, negative, exp10)
  ELSE Decimal(SubSeq(s, 1, dot - 1), SubSeq(s, dot + 1, Len(s)), negative, exp10)

ParseDecimal(s, negative, exp10) == SplitAtDot(s, FirstIndex(s, "."), negative, exp10)

\* the exponent part behind the e: [sign] digits
Exponent(mant, expo, negative) ==
  IF expo # <<>> /\ Head(expo) \in {"+", "-"}
  THEN IF Tail(expo) # <<>> /\ AllDigits(Tail(expo))
       THEN ParseDecimal(mant, negative,
                         IF Head(expo) = "-" THEN -DigitsVal(Tail(expo))
                         ELSE DigitsVal(Tail(expo)))
       ELSE NotAFloat
  ELSE IF expo # <<>> /\ AllDigits(expo)
       THEN ParseDecimal(mant, negative, DigitsVal(expo))
       ELSE NotAFloat

SplitAtE(plain, ePos, negative) ==
  IF ePos = 0 THEN ParseDecimal(plain, negative, 0)
  ELSE Exponent(SubSeq(plain, 1, ePos - 1), SubSeq(plain, ePos + 1, Len(plain)),
                negative)

Unsigned(body, negative) ==
  IF body \in {<<"i","n","f">>, <<"i","n","f","i","n","i","t","y">>}
  THEN NonFiniteFloat(IF negative THEN "-inf" ELSE "inf")
  ELSE IF body = <<"n","a","n">> THEN NonFiniteFloat("nan")
  ELSE IF ~ValidUnderscores(body) THEN NotAFloat
  ELSE SplitAtE(Replace(body, "_", <<>>),
                FirstIndex(Replace(body, "_", <<>>), "e"), negative)

Signed(t) ==
  IF t # <<>> /\ Head(t) \in {"+", "-"}
  THEN Unsigned(Tail(t), Head(t) = "-")
  ELSE Unsigned(t, FALSE)

\* float(text): ok = FALSE stands for ValueError
ParseFloat(text) == Signed(Lower(Strip(text)))

\* m * 10^e without trailing zeros in m while e is negative
RECURSIVE Canonical(_, _)
Canonical(m, e) ==
  IF e < 0 /\ m # 0 /\ m % 10 = 0 THEN Canonical(m \div 10, e + 1) ELSE <<m, e>>

(***************************************************************************)
(* The binary64 product float(text) * multiplier is not the decimal        *)
(* product: for these <<m, e, multiplier>> (m, e canonical) the decimal    *)
(* product is an integer and the binary64 product lies just below it.  The *)
(* table covers the numerals of at most four characters over the digits    *)
(* of NumericChars, and 2.01.                                              *)
(***************************************************************************)
ProductJustBelow ==
  { <<41, -1, 1000000>>, <<414, -2, 1000000>>,
    <<201, -2, 1000>>, <<201, -2, 1000000>> }

Log10Of(multiplier) ==
  IF multiplier = 1 THEN 0 ELSE IF multiplier = 1000 THEN 3 ELSE 6

\* int(f * multiplier) for a float f read by ParseFloat
\* the integer part of a * 10^e, a > 0, less `below`, with the sign
Truncated(a, e, sign, mag, below) ==
  \* above the largest binary64 (1.797...e308) the product is inf
  IF mag > 309 \/ (mag = 309 /\ LeadingTwo(a) >= 18) THEN Raise("OverflowError")
  ELSE IF mag > 9 THEN Return(PyBigInt)
  ELSE IF mag <= 0 THEN Return(PyInt(0))
  ELSE IF e >= 0 THEN Return(PyInt(sign * (a * Pow10(e) - below)))
  ELSE Return(PyInt(sign * ((a \div Pow10(-e)) - below)))

JustBelow(c, multiplier) ==
  IF <<c[1], c[2], multiplier>> \in ProductJustBelow THEN 1 ELSE 0

\* int(f * multiplier) for the outcome f of float(text)
IntOfProduct(f, multiplier) ==
  IF ~f.ok THEN Raise("ValueError")
  ELSE IF f.fc = "nan" THEN Raise("ValueError")
  ELSE IF f.fc \in {"inf", "-inf"} THEN Raise("OverflowError")
  ELSE IF f.m = 0 THEN Return(PyInt(0))
  ELSE Truncated(Abs(f.m), f.e + Log10Of(multiplier),
                 IF f.m < 0 THEN -1 ELSE 1,
                 \* |product| is in [10^(mag-1), 10^mag)
                 NumDigits(Abs(f.m)) + f.e + Log10Of(multiplier),
                 JustBelow(Canonical(Abs(f.m), f.e), multiplier))

\* int(value) for a float argument: truncation towards zero
IntOfFloat(v) ==
  IF v.fc = "nan" THEN Raise("ValueError")
  ELSE IF v.fc \in {"inf", "-inf"} THEN Raise("OverflowError")
  ELSE Return(PyInt((IF v.n < 0 THEN -1 ELSE 1) * (Abs(v.n) \div 10)))

(***************************************************************************)
(* The numeric normalizer.                                                 *)
(***************************************************************************)
\* if normalized.endswith("+"): normalized = normalized[:-1]
DropPlus(normalized) ==
  IF EndsWith(normalized, <<"+">>) THEN DropLast(normalized) ELSE normalized

Multiplier(normalized) ==
  IF EndsWith(normalized, <<"m">>) THEN 1000000
  ELSE IF EndsWith(normalized, <<"k">>) THEN 1000
  ELSE 1

DropSuffix(normalized) ==
  IF EndsWith(normalized, <<"m">>) \/ EndsWith(normalized, <<"k">>)
  THEN DropLast(normalized) ELSE normalized

\* except ValueError: return None
ExceptValueError(attempt) ==
  IF attempt.raised = "ValueError" THEN Return(PyNone) ELSE attempt

\* if not normalized: return None; try: return int(float(normalized) * multiplier)
Convert(normalized, multiplier) ==
  IF normalized = <<>> THEN Return(PyNone)
  ELSE ExceptValueError(IntOfProduct(ParseFloat(normalized), multiplier))

Suffixed(normalized) ==
  Convert(Strip(DropSuffix(normalized)), Multiplier(normalized))

_parse_int(v) ==
  IF v.t = "NoneType" THEN Return(PyNone)
  ELSE IF v.t = "bool" THEN Return(PyInt(IF v.b THEN 1 ELSE 0))
  ELSE IF v.t = "int" THEN Return(v)
  ELSE IF v.t = "float" THEN IntOfFloat(v)
  ELSE IF v.t = "str"
  THEN Suffixed(DropPlus(Replace(Lower(Strip(v.s)), ",", <<>>)))
  ELSE Return(PyNone)

(***************************************************************************)
(* Raw provider records.  A record is a dict; a key that is missing has    *)
(* the value Absent and a key that holds None has the value NoneStr (for   *)
(* the text fields).  score is [t, v]: t the type of the value ("absent"   *)
(* for a missing key) and v ten times the number.  reviews and installs    *)
(* are Python values, PyAbsent for a missing key.                          *)
(***************************************************************************)
Absent == "<absent>"
NoneStr == "<None>"
PyAbsent == [t |-> "absent", b |-> FALSE, n |-> 0, fc |-> "", s |-> <<>>]

ScoreAbsent == [t |-> "absent", v |-> 0]
ScoreNone == [t |-> "NoneType", v |-> 0]
Score(tenths) == [t |-> "float", v |-> tenths]
ScoreText == [t |-> "str", v |-> 0]

\* d.get(key): None for a missing key
Get(v) == IF v = Absent THEN NoneStr ELSE v
GetPy(v) == IF v.t = "absent" THEN PyNone ELSE v
GetScore(v) == IF v.t = "absent" THEN ScoreNone ELSE v

\* d.get(key, default)
GetOr(v, default) == IF v = Absent THEN default ELSE v

\* truthiness of a text field
Truthy(v) == v \notin {NoneStr, ""}

Rec(appId, url, title, score, reviews, installs, developer) ==
  [appId |-> appId, url |-> url, title |-> title, score |-> score,
   reviews |-> reviews, installs |-> installs, developer |-> developer,
   summary |-> Absent, description |-> Absent]

(***************************************************************************)
(* The output shapes and their validation (pydantic).                      *)
(***************************************************************************)
\* AppInfo(name: str, rating: Optional[float], reviews: Optional[int],
\*         min_installs: Optional[int], url: str)
AppInfo(name, rating, reviews, min_installs, url) ==
  IF name = NoneStr \/ url = NoneStr \/ rating.t = "str"
  THEN [raised |-> "ValidationError", none |-> FALSE,
        info |-> [name |-> "", rating |-> ScoreNone, reviews |-> PyNone,
                  min_installs |-> PyNone, url |-> ""]]
  ELSE [raised |-> "", none |-> FALSE,
        info |-> [name |-> name, rating |-> rating, reviews |-> reviews,
                  min_installs |-> min_installs, url |-> url]]

NoAppInfo ==
  [raised |-> "", none |-> TRUE,
   info |-> [name |-> "", rating |-> ScoreNone, reviews |-> PyNone,
             min_installs |-> PyNone, url |-> ""]]

Propagate(exc) == [NoAppInfo EXCEPT !.raised = exc, !.none = FALSE]

\* return AppInfo(...), from the evaluated arguments on
Converted(app_data, app_url, reviews, min_installs) ==
  IF reviews.raised # "" THEN Propagate(reviews.raised)
  ELSE IF min_installs.raised # "" THEN Propagate(min_installs.raised)
  ELSE AppInfo(GetOr(app_data.title, "N/A"), GetScore(app_data.score),
               reviews.ret, min_installs.ret, app_url)

\* app_data.get('url'), or the detail page of the identifier
AppUrl(app_data) ==
  IF Truthy(Get(app_data.url)) THEN Get(app_data.url)
  ELSE "https://play.google.com/store/apps/details?id=" \o Get(app_data.appId)

_to_app_info(app_data) ==
  IF ~Truthy(Get(app_data.url)) /\ ~Truthy(Get(app_data.appId)) THEN NoAppInfo
  ELSE Converted(app_data, AppUrl(app_data),
                 _parse_int(GetPy(app_data.reviews)),
                 _parse_int(GetPy(app_data.installs)))

(***************************************************************************)
(* The search aggregator: what one keyword variant does to the gather's    *)
(* locals.                                                                 *)
(***************************************************************************)
\* the outcome of one provider search call
Raised(exc) == [kind |-> "raised", exc |-> exc, apps |-> <<>>]
BareList(batch) == [kind |-> "list", exc |-> "", apps |-> batch]
Bag(batch) == [kind |-> "dict", exc |-> "", apps |-> batch]
OtherShape == [kind |-> "other", exc |-> "", apps |-> <<>>]

\* the exception classes that `except Exception` catches, among those raised
ExceptionClasses == {"ConnectionError", "NotFoundError", "TypeError",
                     "ValueError", "OverflowError", "ValidationError",
                     "HTTPException"}

\* the normalization of a returned result set to a flat list
AppsBatch(outcome) ==
  IF outcome.kind = "dict" THEN outcome.apps
  ELSE IF outcome.kind = "list" THEN outcome.apps
  ELSE <<>>

\* a fold where a later record of an identifier replaces the stored one
RECURSIVE FoldLastWins(_, _)
FoldLastWins(dedup, batch) ==
  IF batch = <<>> THEN dedup
  ELSE LET app_data == Head(batch)
           app_id == Get(app_data.appId)
       IN  FoldLastWins(
             IF ~Truthy(app_id) THEN dedup
             ELSE IF HasKey(dedup, app_id)
             THEN [dedup EXCEPT ![IndexOfKey(dedup, app_id)].value = app_data]
             ELSE Append(dedup, [key |-> app_id, value |-> app_data]),
             Tail(batch))

\* for app_data in apps_batch: ... deduped[app_id] = app_data
RECURSIVE Fold(_, _)
Fold(dedup, batch) ==
  IF batch = <<>> THEN dedup
  ELSE LET app_data == Head(batch)
           app_id == Get(app_data.appId)
       IN  Fold(IF ~Truthy(app_id) \/ HasKey(dedup, app_id)
                THEN dedup
                ELSE Append(dedup, [key |-> app_id, value |-> app_data]),
                Tail(batch))

\* a loop body without the try around the search call
LoopBodyUnguarded(raw, dedup, outcome) ==
  IF outcome.kind = "raised"
  THEN [raw_results |-> raw, deduped |-> dedup, raises |-> outcome.exc]
  ELSE [raw_results |-> raw \o AppsBatch(outcome),
        deduped |-> Fold(dedup, AppsBatch(outcome)),
        raises |-> ""]

\* one turn of the loop over the keywords, from the outcome of the search
\* call on: the locals afterwards, and the exception that leaves the loop
LoopBody(raw, dedup, outcome) ==
  IF outcome.kind = "raised"
  THEN IF outcome.exc \in ExceptionClasses
       THEN [raw_results |-> raw, deduped |-> dedup, raises |-> ""]  \* continue
       ELSE [raw_results |-> raw, deduped |-> dedup, raises |-> outcome.exc]
  ELSE [raw_results |-> raw \o AppsBatch(outcome),
        deduped |-> Fold(dedup, AppsBatch(outcome)),
        raises |-> ""]

\* a loop that gives up the variant behind a failed one
AdvancePastFailure(index, outcome) ==
  IF outcome.kind = "raised" THEN index + 2 ELSE index + 1

\* for keyword in keywords: the index of the next keyword
Advance(index, outcome) == index + 1

\* list(deduped.values())
Values(d) == [i \in 1..Len(d) |-> d[i].value]

(***************************************************************************)
(* The category pipeline of the result shaper.                             *)
(***************************************************************************)
\* a filter that takes a missing rating for 0
UnderperformingOrUnrated(app) ==
  LET score == GetScore(app.score)
  IN  score.t = "NoneType" \/ score.v < 40

\* app.get('score') is not None and app.get('score') < 4.0
Underperforming(app) ==
  LET score == GetScore(app.score)
  IN  score.t # "NoneType" /\ score.v < 40

\* the comparison of a text with 4.0 raises TypeError
FilterRaises(unique_results) ==
  \E i \in 1..Len(unique_results) : GetScore(unique_results[i].score).t = "str"

RECURSIVE Select(_)
Select(unique_results) ==
  IF unique_results = <<>> THEN <<>>
  ELSE (IF Underperforming(Head(unique_results))
        THEN <<Head(unique_results)>> ELSE <<>>)
       \o Select(Tail(unique_results))

\* a loop that stops one record late
LimitExceeded(apps_payload, limit) == Len(apps_payload) > limit

\* the loop has produced enough
LimitReached(apps_payload, limit) == Len(apps_payload) >= limit

\* for app_data in candidate_results: ... append ... break
RECURSIVE Payload(_, _, _)
\* the body of the loop, from the return of _to_app_info on
Appended(candidate_results, apps_payload, limit, app_info) ==
  IF app_info.raised # "" THEN [raised |-> app_info.raised, apps |-> <<>>]
  ELSE IF app_info.none
  THEN Payload(Tail(candidate_results), apps_payload, limit)
  ELSE IF LimitReached(Append(apps_payload, app_info.info), limit)
  THEN [raised |-> "", apps |-> Append(apps_payload, app_info.info)]
  ELSE Payload(Tail(candidate_results), Append(apps_payload, app_info.info), limit)

Payload(candidate_results, apps_payload, limit) ==
  IF candidate_results = <<>> THEN [raised |-> "", apps |-> apps_payload]
  ELSE Appended(candidate_results, apps_payload, limit,
                _to_app_info(Head(candidate_results)))

NoResponse ==
  [status |-> 0, error |-> "", details |-> "", suggested_categories |-> <<>>,
   category |-> <<>>, total_raw_collected |-> 0,
   total_unique_after_dedup |-> 0, total_returned |-> 0,
   keyword_searched |-> <<>>, total_apps_scanned |-> 0,
   low_rated_apps_count |-> 0, apps |-> <<>>]

\* a shaper that cuts the unique records to the limit before the filter
ShapedLimitFirst(gather_raises, unique_results, limit, underperforming_only) ==
  IF gather_raises # "" THEN [raised |-> gather_raises, apps |-> <<>>]
  ELSE IF underperforming_only
  THEN IF FilterRaises(Prefix(unique_results, limit))
       THEN [raised |-> "TypeError", apps |-> <<>>]
       ELSE Payload(Select(Prefix(unique_results, limit)), <<>>, limit)
  ELSE Payload(unique_results, <<>>, limit)

\* the filter and the loop of scrape_category
Shaped(gather_raises, unique_results, limit, underperforming_only) ==
  IF gather_raises # "" THEN [raised |-> gather_raises, apps |-> <<>>]
  ELSE IF underperforming_only
  THEN IF FilterRaises(unique_results)
       THEN [raised |-> "TypeError", apps |-> <<>>]
       ELSE Payload(Select(unique_results), <<>>, limit)
  ELSE Payload(unique_results, <<>>, limit)

\* a response whose raw count is the count of the unique records
RespondedCountingUnique(normalized_category, raw, unique_results, shaped) ==
  IF shaped.raised # ""
  THEN [NoResponse EXCEPT !.status = 500,
                          !.error = "Failed to scrape category",
                          !.details = shaped.raised,
                          !.category = normalized_category]
  ELSE [NoResponse EXCEPT !.status = 200,
                          !.category = normalized_category,
                          !.total_raw_collected = Len(unique_results),
                          !.total_unique_after_dedup = Len(unique_results),
                          !.total_returned = Len(shaped.apps),
                          !.apps = shaped.apps]

\* return ScrapeResponse(...), or the except clause of scrape_category
Responded(normalized_category, raw, unique_results, shaped) ==
  IF shaped.raised # ""
  THEN [NoResponse EXCEPT !.status = 500,
                          !.error = "Failed to scrape category",
                          !.details = shaped.raised,
                          !.category = normalized_category]
  ELSE [NoResponse EXCEPT !.status = 200,
                          !.category = normalized_category,
                          !.total_raw_collected = Len(raw),
                          !.total_unique_after_dedup = Len(unique_results),
                          !.total_returned = Len(shaped.apps),
                          !.apps = shaped.apps]

\* scrape_category from the return of the gather on
ScrapeResponse(normalized_category, gather_raises, raw, unique_results, limit, underperforming_only) ==
  Responded(normalized_category, raw, unique_results,
            Shaped(gather_raises, unique_results, limit, underperforming_only))

(***************************************************************************)
(* scrape_category: the normalization of the name and the suggestions for  *)
(* an unknown category.                                                    *)
(***************************************************************************)
\* category_name.lower().replace(" ", "_")
Normalize(category_name) == Replace(Lower(category_name), " ", <<"_">>)

\* a condition that looks at the start of the key only
SimilarAtStart(cat, normalized_category) ==
  \/ StartsWith(cat, Prefix(normalized_category, 3))
  \/ StartsWith(cat, Prefix(normalized_category, 2))

\* the condition of the comprehension that picks the suggestions
Similar(cat, normalized_category) ==
  \/ Contains(cat, Prefix(normalized_category, 3))
  \/ StartsWith(cat, Prefix(normalized_category, 2))

RECURSIVE SimilarKeys(_, _)
SimilarKeys(keys, normalized_category) ==
  IF keys = <<>> THEN <<>>
  ELSE (IF Similar(Head(keys), normalized_category) THEN <<Head(keys)>> ELSE <<>>)
       \o SimilarKeys(Tail(keys), normalized_category)

Suggestions(normalized_category) ==
  Prefix(SimilarKeys(Keys(CATEGORY_QUERIES), normalized_category), 5)

\* suggestions if suggestions else list(CATEGORY_QUERIES.keys())[:10]
Suggested(suggestions) ==
  IF suggestions # <<>> THEN suggestions ELSE Prefix(Keys(CATEGORY_QUERIES), 10)

CategoryNotFound(normalized_category) ==
  [NoResponse EXCEPT !.status = 400,
                     !.error = "Category not found",
                     !.suggested_categories =
                        Suggested(Suggestions(normalized_category))]

(***************************************************************************)
(* The deep-scan pipeline of the result shaper.                            *)
(***************************************************************************)
\* DeepScanAppInfo(title: str, appId: str, score: float, developer: str,
\*                 description: Optional[str], installs: Optional[str])
DeepScanAppInfoRejects(title, appId, developer, installs) ==
  \/ title = NoneStr
  \/ appId = NoneStr
  \/ developer = NoneStr
  \/ installs.t \notin {"str", "NoneType"}

\* score is None or score == 0 or score < 3.0 or score >= 4.0
OutOfBand(score) ==
  score.t = "NoneType" \/ score.v = 0 \/ score.v < 30 \/ score.v >= 40

\* the body of the per-record try: the record to append, if any
DeepScanRecord(app_data) ==
  LET score == GetScore(app_data.score)
      title == GetOr(app_data.title, "N/A")
      appId == GetOr(app_data.appId, "N/A")
      developer == GetOr(app_data.developer, "N/A")
      description == GetOr(app_data.summary, GetOr(app_data.description, NoneStr))
      installs == IF app_data.installs.t = "absent" THEN PyStr(<<"N","/","A">>)
                  ELSE app_data.installs
  IN  IF score.t = "str" THEN <<>>                \* TypeError, skipped
      ELSE IF OutOfBand(score) THEN <<>>
      ELSE IF DeepScanAppInfoRejects(title, appId, developer, installs)
      THEN <<>>                                   \* ValidationError, skipped
      ELSE << [title |-> title, app_id |-> appId, score |-> score,
               developer |-> developer, description |-> description,
               installs |-> installs] >>

RECURSIVE LowRated(_)
LowRated(apps_list) ==
  IF apps_list = <<>> THEN <<>>
  ELSE DeepScanRecord(Head(apps_list)) \o LowRated(Tail(apps_list))

\* a place in front of the entries of the same score
InsertBeforeEqual(sorted, x) ==
  LET k == Cardinality({i \in 1..Len(sorted) : sorted[i].score.v < x.score.v})
  IN  SubSeq(sorted, 1, k) \o <<x>> \o SubSeq(sorted, k + 1, Len(sorted))

\* the place of x in a list sorted by score: behind every entry that does
\* not come after it (list.sort is stable)
InsertByScore(sorted, x) ==
  LET k == Cardinality({i \in 1..Len(sorted) : sorted[i].score.v <= x.score.v})
  IN  SubSeq(sorted, 1, k) \o <<x>> \o SubSeq(sorted, k + 1, Len(sorted))

\* low_rated_apps.sort(key=lambda x: x.score)
RECURSIVE SortByScore(_, _)
SortByScore(apps, sorted) ==
  IF apps = <<>> THEN sorted
  ELSE SortByScore(Tail(apps), InsertByScore(sorted, Head(apps)))

\* except clauses without `except HTTPException as he: raise he`
ExceptException(exc, keyword) ==
  [NoResponse EXCEPT !.status = 500,
                     !.error = "Failed to perform deep scan",
                     !.details = exc.type,
                     !.keyword_searched = keyword]

\* the except clauses around the body of deep_scan
ExceptClauses(exc, keyword) ==
  IF exc.type = "HTTPException"
  THEN [NoResponse EXCEPT !.status = exc.status, !.error = exc.error]
  ELSE [NoResponse EXCEPT !.status = 500,
                          !.error = "Failed to perform deep scan",
                          !.details = exc.type,
                          !.keyword_searched = keyword]

\* deep_scan from the return of the provider call on
DeepScanResponse(keyword, outcome) ==
  LET apps_list == AppsBatch(outcome)
      low_rated_apps == SortByScore(LowRated(apps_list), <<>>)
  IN  IF outcome.kind = "raised"
      THEN ExceptClauses([type |-> outcome.exc, status |-> 0, error |-> ""], keyword)
      ELSE IF apps_list = <<>>
      THEN ExceptClauses([type |-> "HTTPException", status |-> 404,
                          error |-> "No results found"], keyword)
      ELSE [NoResponse EXCEPT !.status = 200,
                              !.keyword_searched = keyword,
                              !.total_apps_scanned = Len(apps_list),
                              !.low_rated_apps_count = Len(low_rated_apps),
                              !.apps = low_rated_apps]

(***************************************************************************)
(* The inputs the model tries.                                             *)
(***************************************************************************)
SeqsUpTo(S, n) == UNION {[1..k -> S] : k \in 0..n}

LimitMin == 1
LimitMax == 1000
Limits == {l \in LimitMin..LimitMax : l <= MaxLimit}

NameChars == {"a", "m", "e", "g", "x", "q", "A", " "}
ExtraNames ==
  { <<"p","u","z","z","l","e">>,
    <<"P","u","z","z","l","e">>,
    <<"a","m","e","s">>,
    <<"n","o","t","_","a","_","r","e","a","l","_","c","a","t","e","g","o","r","y">>,
    <<"i","n","v","a","l","i","d","_","c","a","t","e","g","o","r","y","_","x","y","z">> }
\* a path parameter is never empty
CategoryNames == (SeqsUpTo(NameChars, MaxNameLen) \ {<<>>}) \cup ExtraNames

Keywords == { <<>>, <<" ">>, <<"v","p","n">>, <<" ","v","p","n"," ">> }

ProviderErrors == {"ConnectionError", "NotFoundError"}

\* records as the provider documents them
Alpha == Rec("a", Absent, "Alpha", Score(35), PyInt(12),
             PyStr(<<"1","0",",","0","0","0","+">>), "Dev")
Alpha2 == Rec("a", "https://play.google.com/a", "Alpha again", Score(40), PyNone,
              PyStr(<<"1",".","5","M">>), "Dev")
Bare == Rec("b", Absent, Absent, ScoreAbsent, PyAbsent, PyAbsent, Absent)
Ghost == Rec(Absent, Absent, "Ghost", Score(20), PyAbsent, PyAbsent, "Dev")
Beta == Rec("b", Absent, "Beta", Score(35), PyAbsent, PyNone, "Dev")
Low == Rec("l", Absent, "Low", Score(30), PyAbsent, PyAbsent, "Dev")
Top == Rec("t", Absent, "Top", Score(40), PyAbsent, PyAbsent, "Dev")
Unrated == Rec("z", Absent, "Unrated", Score(0), PyAbsent, PyAbsent, "Dev")
\* records with a field of another type than documented
Nameless == Rec("n", Absent, NoneStr, Score(30), PyAbsent, PyNone, "Dev")
Orphan == Rec("o", Absent, "Orphan", Score(35), PyAbsent, PyNone, NoneStr)
Worded == Rec("w", Absent, "Worded", ScoreText, PyAbsent, PyAbsent, "Dev")

ScrapePool == {Alpha, Alpha2, Bare, Ghost}
MalformedPool == {Alpha, Nameless, Worded}
DeepPool == {Alpha, Beta, Bare, Low, Top, Unrated, Nameless, Orphan, Worded}

NumericChars == {"1", "4", ".", ",", "+", "k", "M", " ", "x"}
ExtraTexts ==
  { <<"1","2","3","4">>, <<"1","0",",","0","0","0","+">>, <<"1",".","5","M">>,
    <<"2","k">>, <<"a","b","c">>, <<"i","n","f">>, <<"-","i","n","f">>,
    <<"n","a","n">>, <<"I","n","f","i","n","i","t","y">>,
    <<"1","e","9","9","9">>, <<"1","e","5">>, <<"1","e","3","0","6","M">>,
    <<"2",".","0","1","k">>, <<"1","_","0">>, <<"-","1",".","5","k">> }
ParseInputs ==
  {PyNone, PyBool(TRUE), PyBool(FALSE), PyList}
  \cup {PyInt(n) : n \in {-7, 0, 12}}
  \cup {PyFloat(t) : t \in {-19, -5, 0, 5, 19, 20}}
  \cup {PyNonFinite(fc) : fc \in {"inf", "-inf", "nan"}}
  \cup {PyStr(s) : s \in SeqsUpTo(NumericChars, MaxStrLen) \cup ExtraTexts}

(***************************************************************************)
(* The requests.                                                           *)
(***************************************************************************)
NoRequest ==
  [endpoint |-> "", normalized_category |-> <<>>,
   limit |-> 0, underperforming_only |-> FALSE, keyword |-> <<>>]

Idle ==
  /\ pc = "idle"
  /\ req = NoRequest
  /\ keywords = <<>>
  /\ kw_index = 0
  /\ calls = <<>>
  /\ search_error = ""
  /\ apps_batch = <<>>
  /\ search_failed = FALSE
  /\ raw_results = <<>>
  /\ deduped = <<>>
  /\ resp = NoResponse

\* nothing is being built, no request is served beside
Apart ==
  /\ built = <<>>
  /\ variant_index = 0
  /\ unique_variants = <<>>
  /\ slots = <<>>

Init ==
  /\ Idle
  /\ Apart
  /\ value = PyNone
  /\ parsed = Return(PyNone)

\* search(query=..., n_hits=..., lang="en", country="us")
SearchCall(query, n_hits) ==
  [query |-> query, n_hits |-> n_hits, lang |-> "en", country |-> "us"]

\* scrape_category up to the first search call: the lookup in the registry,
\* and the keywords the gather starts with
Looked(normalized_category, limit, underperforming_only, gather_keywords) ==
  /\ pc = "idle"
  /\ req' = [NoRequest EXCEPT !.endpoint = "scrape",
                              !.normalized_category = normalized_category,
                              !.limit = limit,
                              !.underperforming_only = underperforming_only]
  /\ IF ~HasKey(CATEGORY_QUERIES, normalized_category)
     THEN /\ pc' = "done"
          /\ resp' = CategoryNotFound(normalized_category)
          /\ keywords' = keywords
     ELSE IF gather_keywords = <<>>
     THEN /\ pc' = "done"
          /\ resp' = ScrapeResponse(normalized_category, "", <<>>, <<>>,
                                    limit, underperforming_only)
          /\ keywords' = gather_keywords
     ELSE /\ pc' = "gather"
          /\ resp' = resp
          /\ keywords' = gather_keywords
  /\ UNCHANGED <<kw_index, calls, search_error, apps_batch, search_failed,
                 raw_results, deduped, value, parsed>>
  /\ UNCHANGED beside

ScrapeCategory(category_name, limit, underperforming_only) ==
  Looked(Normalize(category_name), limit, underperforming_only,
         KeywordsOf(Normalize(category_name)))

\* one search call of the gather loop and the loop body behind it; behind
\* the last one, the rest of scrape_category
Searched(outcome, body, next) ==
  /\ pc = "gather"
  /\ Len(raw_results) + Len(outcome.apps) <= MaxRaw
  /\ calls' = Append(calls, SearchCall(keywords[kw_index + 1], PER_KEYWORD_HITS))
  /\ search_error' = outcome.exc
  /\ apps_batch' = AppsBatch(outcome)
  /\ search_failed' = (search_failed \/ outcome.kind = "raised")
  /\ raw_results' = body.raw_results
  /\ deduped' = body.deduped
  /\ kw_index' = next
  /\ IF body.raises # "" \/ next >= Len(keywords)
     THEN /\ pc' = "done"
          /\ resp' = ScrapeResponse(req.normalized_category, body.raises,
                                    body.raw_results, Values(body.deduped),
                                    req.limit, req.underperforming_only)
     ELSE /\ pc' = "gather"
          /\ resp' = resp
  /\ UNCHANGED <<req, keywords, value, parsed>>
  /\ UNCHANGED beside

Search(outcome) ==
  Searched(outcome, LoopBody(raw_results, deduped, outcome),
           Advance(kw_index, outcome))

SearchRaises(exc) == Search(Raised(exc))
SearchReturnsList(batch) == Search(BareList(batch))
SearchReturnsBag(batch) == Search(Bag(batch))
SearchReturnsOther == Search(OtherShape)

\* a deep scan that searches before it looks at the keyword
DeepScanSearchFirst(keyword, outcome) ==
  /\ pc = "idle"
  /\ pc' = "done"
  /\ req' = [NoRequest EXCEPT !.endpoint = "deep_scan", !.keyword = keyword]
  /\ calls' = Append(calls, SearchCall(keyword, 500))
  /\ search_error' = outcome.exc
  /\ apps_batch' = AppsBatch(outcome)
  /\ resp' = (IF keyword = <<>> \/ Len(Strip(keyword)) = 0
              THEN [NoResponse EXCEPT !.status = 400,
                                      !.error = "Keyword cannot be empty"]
              ELSE DeepScanResponse(Strip(keyword), outcome))
  /\ UNCHANGED <<keywords, kw_index, search_failed, raw_results, deduped,
                 value, parsed>>
  /\ UNCHANGED beside

\* deep_scan
DeepScan(keyword, outcome) ==
  /\ pc = "idle"
  /\ pc' = "done"
  /\ IF keyword = <<>> \/ Len(Strip(keyword)) = 0
     THEN /\ req' = [NoRequest EXCEPT !.endpoint = "deep_scan", !.keyword = keyword]
          /\ resp' = [NoResponse EXCEPT !.status = 400,
                                        !.error = "Keyword cannot be empty"]
          /\ UNCHANGED <<calls, search_error, apps_batch>>
     ELSE /\ req' = [NoRequest EXCEPT !.endpoint = "deep_scan", !.keyword = keyword]
          /\ calls' = Append(calls, SearchCall(Strip(keyword), 500))
          /\ search_error' = outcome.exc
          /\ apps_batch' = AppsBatch(outcome)
          /\ resp' = DeepScanResponse(Strip(keyword), outcome)
  /\ UNCHANGED <<keywords, kw_index, search_failed, raw_results, deduped,
                 value, parsed>>
  /\ UNCHANGED beside

\* the response is sent; the locals of the request are gone
Respond ==
  /\ pc = "done"
  /\ pc' = "idle"
  /\ req' = NoRequest
  /\ keywords' = <<>>
  /\ kw_index' = 0
  /\ calls' = <<>>
  /\ search_error' = ""
  /\ apps_batch' = <<>>
  /\ search_failed' = FALSE
  /\ raw_results' = <<>>
  /\ deduped' = <<>>
  /\ resp' = NoResponse
  /\ UNCHANGED <<value, parsed>>
  /\ UNCHANGED beside

DeepScanList(keyword, batch) == DeepScan(keyword, BareList(batch))
DeepScanBag(keyword, batch) == DeepScan(keyword, Bag(batch))
DeepScanRaises(keyword, exc) == DeepScan(keyword, Raised(exc))
DeepScanOther(keyword) == DeepScan(keyword, OtherShape)

\* the inputs S, offered where the server is at `at`
Offered(S, at) == IF pc = at THEN S ELSE {}

\* the batches over a pool that the provider may still hand out
Batches(pool) == SeqsUpTo(pool, MaxRaw - Len(raw_results))

Next ==
  \/ \E category_name \in Offered(CategoryNames, "idle"), limit \in Limits,
        underperforming_only \in BOOLEAN :
       ScrapeCategory(category_name, limit, underperforming_only)
  \/ \E exc \in Offered(ProviderErrors, "gather") : SearchRaises(exc)
  \/ \E batch \in Offered(Batches(ScrapePool), "gather") : SearchReturnsList(batch)
  \/ \E batch \in Offered(Batches(ScrapePool), "gather") : SearchReturnsBag(batch)
  \/ SearchReturnsOther
  \/ \E keyword \in Offered(Keywords, "idle"),
        batch \in SeqsUpTo(DeepPool, MaxScan) : DeepScanList(keyword, batch)
  \/ \E keyword \in Offered(Keywords, "idle"),
        batch \in SeqsUpTo(DeepPool, MaxScan) : DeepScanBag(keyword, batch)
  \/ \E keyword \in Offered(Keywords, "idle"), exc \in ProviderErrors :
       DeepScanRaises(keyword, exc)
  \/ \E keyword \in Offered(Keywords, "idle") : DeepScanOther(keyword)
  \/ Respond

Spec == Init /\ [][Next]_vars

(***************************************************************************)
(* The same server with a provider whose records may carry a field of      *)
(* another type than documented.                                           *)
(***************************************************************************)
RegisteredNames == {name \in CategoryNames : HasKey(CATEGORY_QUERIES, Normalize(name))}

NextMalformed ==
  \/ \E category_name \in Offered(RegisteredNames, "idle"), limit \in Limits,
        underperforming_only \in BOOLEAN :
       ScrapeCategory(category_name, limit, underperforming_only)
  \/ \E exc \in Offered(ProviderErrors, "gather") : SearchRaises(exc)
  \/ \E batch \in Offered(Batches(MalformedPool), "gather") :
       SearchReturnsList(batch)
  \/ \E keyword \in Offered(Keywords, "idle"),
        batch \in SeqsUpTo(DeepPool, MaxScan) : DeepScanList(keyword, batch)
  \/ Respond

SpecMalformed == Init /\ [][NextMalformed]_vars

(***************************************************************************)
(* _parse_int on its own.                                                  *)
(***************************************************************************)
InitParse ==
  /\ Idle
  /\ Apart
  /\ value \in ParseInputs
  /\ parsed = Return(PyNone)

\* _parse_int(value)
ParseInt ==
  /\ pc = "idle"
  /\ pc' = "parsed"
  /\ parsed' = _parse_int(value)
  /\ UNCHANGED <<req, keywords, kw_index, calls, search_error, apps_batch,
                 search_failed, raw_results, deduped, resp, value>>
  /\ UNCHANGED beside

NextParse == ParseInt

SpecParse == InitParse /\ [][NextParse]_vars

(***************************************************************************)
(* The startup: _build_category_keywords goes through the registry, and    *)
(* through the variants of each category.                                  *)
(***************************************************************************)
InitBuild ==
  /\ pc = "building"
  /\ req = NoRequest
  /\ keywords = <<>>
  /\ kw_index = 0
  /\ calls = <<>>
  /\ search_error = ""
  /\ apps_batch = <<>>
  /\ search_failed = FALSE
  /\ raw_results = <<>>
  /\ deduped = <<>>
  /\ resp = NoResponse
  /\ value = PyNone
  /\ parsed = Return(PyNone)
  /\ Apart

\* the variants of the category the loop over the registry is at
VariantsAtHand ==
  Variants(CATEGORY_QUERIES[Len(built) + 1].key,
           CATEGORY_QUERIES[Len(built) + 1].phrase)

\* dict.fromkeys takes the next variant of the generator
TakeVariant ==
  /\ pc = "building"
  /\ variant_index < Len(VariantsAtHand)
  /\ unique_variants' = FromKeys(<<VariantsAtHand[variant_index + 1]>>,
                                 unique_variants)
  /\ variant_index' = variant_index + 1
  /\ UNCHANGED <<pc, req, keywords, kw_index, calls, search_error, apps_batch,
                 search_failed, raw_results, deduped, resp, value, parsed,
                 built, slots>>

\* keywords[category] = unique_variants; behind the last category, return
StoreCategory ==
  /\ pc = "building"
  /\ variant_index = Len(VariantsAtHand)
  /\ built' = DictMerge(built, << [key |-> CATEGORY_QUERIES[Len(built) + 1].key,
                                   keywords |-> unique_variants] >>)
  /\ variant_index' = 0
  /\ unique_variants' = <<>>
  /\ pc' = (IF Len(built) + 1 = Len(CATEGORY_QUERIES) THEN "built"
            ELSE "building")
  /\ UNCHANGED <<req, keywords, kw_index, calls, search_error, apps_batch,
                 search_failed, raw_results, deduped, resp, value, parsed,
                 slots>>

NextBuild == TakeVariant \/ StoreCategory

SpecBuild == InitBuild /\ [][NextBuild]_vars

(***************************************************************************)
(* Requests served side by side.  Every call of a handler has its own      *)
(* locals; a step is one search call of one request with the code behind   *)
(* it, as in the server of one request.                                    *)
(***************************************************************************)
Requests == {1, 2}

FreeSlot ==
  [pc |-> "idle", req |-> NoRequest, keywords |-> <<>>, kw_index |-> 0,
   raw_results |-> <<>>, deduped |-> <<>>, resp |-> NoResponse]

SlotPool == {Alpha, Alpha2}
SlotNames == { <<"p","u","z","z","l","e">>, <<"q","q">> }

InitConcurrent ==
  /\ Idle
  /\ value = PyNone
  /\ parsed = Return(PyNone)
  /\ built = <<>>
  /\ variant_index = 0
  /\ unique_variants = <<>>
  /\ slots = [r \in Requests |-> FreeSlot]

\* shared raw_results and deduped: what a request stores, every request has
StoredShared(all, r, local) ==
  [q \in DOMAIN all |->
     IF q = r THEN local
     ELSE [all[q] EXCEPT !.raw_results = local.raw_results,
                         !.deduped = local.deduped]]

\* the locals of request r are its own
Stored(all, r, local) == [all EXCEPT ![r] = local]

\* scrape_category up to the first search call, in the locals of a request
SlotLooked(local, normalized_category, limit, underperforming_only) ==
  IF ~HasKey(CATEGORY_QUERIES, normalized_category)
  THEN [local EXCEPT
          !.pc = "done",
          !.req = [NoRequest EXCEPT !.endpoint = "scrape",
                                    !.normalized_category = normalized_category,
                                    !.limit = limit,
                                    !.underperforming_only = underperforming_only],
          !.resp = CategoryNotFound(normalized_category)]
  ELSE [local EXCEPT
          !.pc = "gather",
          !.req = [NoRequest EXCEPT !.endpoint = "scrape",
                                    !.normalized_category = normalized_category,
                                    !.limit = limit,
                                    !.underperforming_only = underperforming_only],
          !.keywords = KeywordsOf(normalized_category)]

\* one search call of the gather loop, in the locals of a request
SlotSearched(local, body, next) ==
  IF body.raises # "" \/ next >= Len(local.keywords)
  THEN [local EXCEPT
          !.pc = "done",
          !.kw_index = next,
          !.raw_results = body.raw_results,
          !.deduped = body.deduped,
          !.resp = ScrapeResponse(local.req.normalized_category, body.raises,
                                  body.raw_results, Values(body.deduped),
                                  local.req.limit,
                                  local.req.underperforming_only)]
  ELSE [local EXCEPT
          !.kw_index = next,
          !.raw_results = body.raw_results,
          !.deduped = body.deduped]

\* deep_scan, in the locals of a request
SlotScanned(local, keyword, outcome) ==
  [local EXCEPT
     !.pc = "done",
     !.req = [NoRequest EXCEPT !.endpoint = "deep_scan", !.keyword = keyword],
     !.resp = IF keyword = <<>> \/ Len(Strip(keyword)) = 0
              THEN [NoResponse EXCEPT !.status = 400,
                                      !.error = "Keyword cannot be empty"]
              ELSE DeepScanResponse(Strip(keyword), outcome)]

Aside ==
  UNCHANGED <<pc, req, keywords, kw_index, calls, search_error, apps_batch,
              search_failed, raw_results, deduped, resp, value, parsed,
              built, variant_index, unique_variants>>

SlotScrape(r, category_name, limit, underperforming_only) ==
  /\ slots[r].pc = "idle"
  /\ slots' = Stored(slots, r, SlotLooked(slots[r], Normalize(category_name),
                                          limit, underperforming_only))
  /\ Aside

SlotSearch(r, outcome) ==
  /\ slots[r].pc = "gather"
  /\ Len(slots[r].raw_results) + Len(outcome.apps) <= MaxSlotRaw
  /\ slots' = Stored(slots, r,
                     SlotSearched(slots[r],
                                  LoopBody(slots[r].raw_results,
                                           slots[r].deduped, outcome),
                                  Advance(slots[r].kw_index, outcome)))
  /\ Aside

SlotDeepScan(r, keyword, outcome) ==
  /\ slots[r].pc = "idle"
  /\ slots' = Stored(slots, r, SlotScanned(slots[r], keyword, outcome))
  /\ Aside

\* the response is sent; the locals of the request are gone
SlotRespond(r) ==
  /\ slots[r].pc = "done"
  /\ slots' = Stored(slots, r, FreeSlot)
  /\ Aside

NextConcurrent ==
  \/ \E r \in Requests, category_name \in SlotNames,
        underperforming_only \in BOOLEAN :
       SlotScrape(r, category_name, LimitMin, underperforming_only)
  \/ \E r \in Requests, exc \in {"ConnectionError"} : SlotSearch(r, Raised(exc))
  \/ \E r \in Requests, batch \in SeqsUpTo(SlotPool, MaxSlotRaw) :
       SlotSearch(r, BareList(batch))
  \/ \E r \in Requests, keyword \in {<<"v","p","n">>},
        batch \in SeqsUpTo(SlotPool, 1) :
       SlotDeepScan(r, keyword, BareList(batch))
  \/ \E r \in Requests : SlotRespond(r)

SpecConcurrent == InitConcurrent /\ [][NextConcurrent]_vars

(***************************************************************************)
(* The properties of the search aggregator.                                *)
(***************************************************************************)
\* the identifier is met among the collected records
Met(raw, app_id) == \E k \in 1..Len(raw) : Get(raw[k].appId) = app_id

\* the place where the identifier is met first
FirstAt(raw, app_id) ==
  CHOOSE k \in 1..Len(raw) :
    /\ Get(raw[k].appId) = app_id
    /\ \A j \in 1..(k - 1) : Get(raw[j].appId) # app_id

\* C1: every non-empty appId among the collected raw records occurs exactly
\* once in the deduplicated list, the record kept for it is the one met first
\* (a later record of the same appId is dropped), and the list is ordered by
\* the first appearance of each appId.
C1_FirstSeenWins ==
  /\ \A i, j \in 1..Len(deduped) : i # j => deduped[i].key # deduped[j].key
  /\ \A k \in 1..Len(raw_results) :
       Truthy(Get(raw_results[k].appId))
         => HasKey(deduped, Get(raw_results[k].appId))
  /\ \A i \in 1..Len(deduped) :
       /\ Truthy(deduped[i].key)
       /\ Met(raw_results, deduped[i].key)
       /\ deduped[i].value = raw_results[FirstAt(raw_results, deduped[i].key)]
  /\ \A i, j \in 1..Len(deduped) :
       i < j => FirstAt(raw_results, deduped[i].key)
                  < FirstAt(raw_results, deduped[j].key)

\* a later variant has returned another record for an identifier collected
\* before, and two identifiers are kept
C1_LaterDuplicateDropped ==
  /\ req.endpoint = "scrape"
  /\ Len(deduped) >= 2
  /\ \E i, j \in 1..Len(raw_results) :
       /\ i <= Len(raw_results) - Len(apps_batch)
       /\ j > Len(raw_results) - Len(apps_batch)
       /\ Truthy(Get(raw_results[i].appId))
       /\ raw_results[i].appId = raw_results[j].appId
       /\ raw_results[i] # raw_results[j]

\* C2: a variant whose search raises adds nothing to the raw and the
\* deduplicated collections and raises nothing itself; the loop goes on to
\* the next variant, a successful variant appends its records to the raw
\* collection, and the request is answered normally only behind the last
\* variant.
C2_FailedVariantSkipped ==
  [][ (pc = "gather" /\ calls' # calls) =>
        /\ (search_error' # "" =>
              /\ raw_results' = raw_results
              /\ deduped' = deduped)
        /\ (search_error' = "" => raw_results' = raw_results \o apps_batch')
        /\ kw_index' = kw_index + 1
        /\ pc' = (IF kw_index' < Len(keywords) THEN "gather" ELSE "done")
        /\ (pc' = "done" => resp'.status = 200 /\ resp'.details = "")
    ]_vars

\* a request is answered with records although a variant before the last
\* one has failed
C2_AnsweredAfterFailure ==
  /\ pc = "done"
  /\ req.endpoint = "scrape"
  /\ resp.status = 200
  /\ search_failed
  /\ search_error = ""
  /\ apps_batch # <<>>
  /\ Len(raw_results) >= Len(apps_batch)
  /\ resp.total_returned > 0

\* C3: a request for a registered category makes one search call per phrase
\* of the category's expanded keyword list, in list order, each with 200
\* hits, lang "en" and country "us"; it is answered only when every phrase
\* has been searched, and every request starts again without a call made.
C3_OneSearchPerVariant ==
  (req.endpoint = "scrape" /\ HasKey(CATEGORY_QUERIES, req.normalized_category))
    => /\ Len(calls) = kw_index
       /\ kw_index <= Len(KeywordsOf(req.normalized_category))
       /\ \A i \in 1..Len(calls) :
            calls[i] = [query |-> KeywordsOf(req.normalized_category)[i],
                        n_hits |-> 200, lang |-> "en", country |-> "us"]
       /\ (pc = "done" => Len(calls) = Len(KeywordsOf(req.normalized_category)))
       /\ (pc = "gather" => Len(calls) < Len(KeywordsOf(req.normalized_category)))
       /\ (pc = "idle" => calls = <<>>)

\* a request is answered after six searches, one of which failed
C3_AllVariantsSearched ==
  /\ pc = "done"
  /\ req.endpoint = "scrape"
  /\ resp.status = 200
  /\ Len(calls) = 6
  /\ search_failed
  /\ raw_results # <<>>

(***************************************************************************)
(* The properties of the result shaper.                                    *)
(***************************************************************************)
\* C4: a successful category response holds at most `limit` apps, with
\* 1 <= limit <= 1000, and its total_returned is the length of its apps.
C4_LimitBoundsPayload ==
  (pc = "done" /\ req.endpoint = "scrape" /\ resp.status = 200)
    => /\ req.limit \in 1..1000
       /\ Len(resp.apps) <= req.limit
       /\ resp.total_returned = Len(resp.apps)

\* more records are kept than the limit lets through
C4_Truncated ==
  /\ pc = "done"
  /\ req.endpoint = "scrape"
  /\ resp.status = 200
  /\ ~req.underperforming_only
  /\ Len(deduped) > req.limit
  /\ Len(resp.apps) = req.limit

\* C5: with underperforming_only every app of a successful category response
\* has a rating that is present and below 4.0, and no deduplicated record
\* whose rating is absent or at least 4.0 is in the response.
C5_OnlyUnderperforming ==
  (pc = "done" /\ req.endpoint = "scrape" /\ resp.status = 200
     /\ req.underperforming_only)
    => /\ \A i \in 1..Len(resp.apps) :
            /\ resp.apps[i].rating.t = "float"
            /\ resp.apps[i].rating.v < 40
       /\ \A k \in 1..Len(deduped) :
            (GetScore(deduped[k].value.score).t # "float"
               \/ GetScore(deduped[k].value.score).v >= 40)
              => \A i \in 1..Len(resp.apps) :
                   resp.apps[i].url # AppUrl(deduped[k].value)

\* the filter, and not the limit, has kept a record out of a response that
\* holds another one
C5_FilteredOut ==
  /\ pc = "done"
  /\ req.endpoint = "scrape"
  /\ resp.status = 200
  /\ req.underperforming_only
  /\ resp.apps # <<>>
  /\ Len(resp.apps) < req.limit
  /\ Len(resp.apps) < Len(deduped)

\* a rating of the band 3.0 <= r < 4.0
InBand(score) == score.t = "float" /\ score.v >= 30 /\ score.v < 40

\* C6: every app of a successful deep scan has a rating r with
\* 3.0 <= r < 4.0 (none absent, none 0); the apps are in ascending order of
\* rating, apps of equal rating in the order the provider returned them; and
\* low_rated_apps_count is the length of the list.
C6_BandSortedStable ==
  (pc = "done" /\ req.endpoint = "deep_scan" /\ resp.status = 200)
    => /\ \A i \in 1..Len(resp.apps) :
            InBand(resp.apps[i].score) /\ resp.apps[i].score.v # 0
       /\ \A i, j \in 1..Len(resp.apps) :
            i < j => resp.apps[i].score.v <= resp.apps[j].score.v
       /\ resp.low_rated_apps_count = Len(resp.apps)
       /\ \E f \in [1..Len(resp.apps) -> 1..Len(apps_batch)] :
            /\ \A i \in 1..Len(resp.apps) :
                 /\ GetScore(apps_batch[f[i]].score) = resp.apps[i].score
                 /\ GetOr(apps_batch[f[i]].appId, "N/A") = resp.apps[i].app_id
                 /\ GetOr(apps_batch[f[i]].title, "N/A") = resp.apps[i].title
            /\ \A i, j \in 1..Len(resp.apps) :
                 (i < j /\ resp.apps[i].score = resp.apps[j].score)
                   => f[i] < f[j]

\* the sort has moved a record to the front of two others of one rating
C6_SortedWithTies ==
  /\ pc = "done"
  /\ req.endpoint = "deep_scan"
  /\ resp.status = 200
  /\ InBand(GetScore(apps_batch[1].score))
  /\ \E k \in 2..Len(apps_batch) :
       /\ InBand(GetScore(apps_batch[k].score))
       /\ GetScore(apps_batch[k].score).v < GetScore(apps_batch[1].score).v
  /\ \E i, j \in 1..Len(resp.apps) :
       /\ i < j
       /\ resp.apps[i].score = resp.apps[j].score
       /\ resp.apps[i].app_id # resp.apps[j].app_id

\* C7: a deep scan whose search returns no record is answered 404 "No results
\* found", not 500; one whose search returns records is answered 200, with an
\* empty list and a count of 0 when no record is in the band.
C7_NoResultsIs404 ==
  (pc = "done" /\ req.endpoint = "deep_scan" /\ Len(calls) = 1
     /\ search_error = "")
    => /\ (apps_batch = <<>>
             => resp.status = 404 /\ resp.error = "No results found")
       /\ (apps_batch # <<>> => resp.status = 200)
       /\ ((apps_batch # <<>>
              /\ \A k \in 1..Len(apps_batch) :
                   ~InBand(GetScore(apps_batch[k].score)))
             => /\ resp.apps = <<>>
                /\ resp.low_rated_apps_count = 0
                /\ resp.total_apps_scanned = Len(apps_batch))

\* the search of a deep scan has returned no record
C7_NothingFound ==
  /\ pc = "done"
  /\ req.endpoint = "deep_scan"
  /\ Len(calls) = 1
  /\ search_error = ""
  /\ apps_batch = <<>>
  /\ resp.status = 404

\* C8: a record that cannot be converted or compared is skipped, in the
\* category pipeline as in the deep scan: a request whose searches return
\* records is answered 200.
C8_RecordFailuresAbsorbed ==
  /\ (pc = "done" /\ req.endpoint = "scrape") => resp.status = 200
  /\ (pc = "done" /\ req.endpoint = "deep_scan" /\ search_error = ""
        /\ apps_batch # <<>>) => resp.status = 200

(***************************************************************************)
(* The properties of the suggestions for an unknown category.              *)
(***************************************************************************)
\* the key starts with the first 2 or the first 3 characters of the request
SharesPrefix(cat, key) ==
  StartsWith(cat, Prefix(key, 2)) \/ StartsWith(cat, Prefix(key, 3))

\* the key has the first 3 characters of the request somewhere in it, or
\* starts with its first 2
Resembles(cat, key) ==
  Contains(cat, Prefix(key, 3)) \/ StartsWith(cat, Prefix(key, 2))

\* the places in the registry of the keys that resemble the request
Resembling(key) ==
  {n \in 1..Len(CATEGORY_QUERIES) : Resembles(CATEGORY_QUERIES[n].key, key)}

\* C9 as the specification words it: the suggestions for an unknown key are
\* never empty; they are at most five registry keys that share the first 2 or
\* the first 3 characters of the key, or, when no registry key does, the first
\* 10 registry keys.
C9_SuggestionsSharePrefix ==
  (pc = "done" /\ req.endpoint = "scrape" /\ resp.status = 400)
    => /\ resp.suggested_categories # <<>>
       /\ IF \E n \in 1..Len(CATEGORY_QUERIES) :
               SharesPrefix(CATEGORY_QUERIES[n].key, req.normalized_category)
          THEN /\ Len(resp.suggested_categories) <= 5
               /\ \A i \in 1..Len(resp.suggested_categories) :
                    /\ HasKey(CATEGORY_QUERIES, resp.suggested_categories[i])
                    /\ SharesPrefix(resp.suggested_categories[i],
                                    req.normalized_category)
          ELSE resp.suggested_categories
                 = [n \in 1..10 |-> CATEGORY_QUERIES[n].key]

\* C9: the suggestions for an unknown key are never empty; they are, in
\* registry order, the first five (or all, if fewer) registry keys that have
\* the first 3 characters of the key somewhere in them or start with its first
\* 2 characters, or, when no registry key does, the first 10 registry keys.
C9_SuggestionsResemble ==
  (pc = "done" /\ req.endpoint = "scrape" /\ resp.status = 400)
    => /\ resp.suggested_categories # <<>>
       /\ IF Resembling(req.normalized_category) # {}
          THEN /\ Len(resp.suggested_categories) <= 5
               /\ Len(resp.suggested_categories) < 5
                    => Len(resp.suggested_categories)
                         = Cardinality(Resembling(req.normalized_category))
               /\ \A i \in 1..Len(resp.suggested_categories) :
                    \E n \in Resembling(req.normalized_category) :
                      /\ CATEGORY_QUERIES[n].key = resp.suggested_categories[i]
                      /\ Cardinality({m \in Resembling(req.normalized_category) :
                                        m < n}) = i - 1
          ELSE resp.suggested_categories
                 = [n \in 1..10 |-> CATEGORY_QUERIES[n].key]

\* a suggested key has the first 3 characters of the request in it, not at
\* its start
C9_SuggestedByInfix ==
  /\ pc = "done"
  /\ req.endpoint = "scrape"
  /\ resp.status = 400
  /\ Len(req.normalized_category) >= 3
  /\ \E i \in 1..Len(resp.suggested_categories) :
       /\ Contains(resp.suggested_categories[i], Prefix(req.normalized_category, 3))
       /\ ~SharesPrefix(resp.suggested_categories[i], req.normalized_category)

(***************************************************************************)
(* The properties of _parse_int.                                           *)
(***************************************************************************)
\* C10: _parse_int raises for no input: it returns an integer or None.
C10_ParseIntNeverRaises ==
  pc = "parsed" => /\ parsed.raised = ""
                   /\ parsed.ret.t \in {"int", "NoneType"}

\* the text without its trailing +
NoPlus(t) ==
  IF t # <<>> /\ t[Len(t)] = "+" THEN SubSeq(t, 1, Len(t) - 1) ELSE t

\* the k or m at the end of the text, "" when there is none
SuffixOf(t) ==
  IF t # <<>> /\ t[Len(t)] \in {"k", "m"} THEN t[Len(t)] ELSE ""

\* the text in front of the suffix
NumeralOf(t) ==
  IF SuffixOf(t) # "" THEN SubSeq(t, 1, Len(t) - 1) ELSE t

\* digits with at most one decimal point among them
IsNumeral(s) ==
  /\ \A i \in 1..Len(s) : IsDigit(s[i]) \/ s[i] = "."
  /\ Cardinality({i \in 1..Len(s) : s[i] = "."}) <= 1
  /\ \E i \in 1..Len(s) : IsDigit(s[i])

Scale(suffix) ==
  IF suffix = "m" THEN 1000000 ELSE IF suffix = "k" THEN 1000 ELSE 1

\* the number of digits behind the decimal point
Decimals(s) ==
  IF FirstIndex(s, ".") = 0 THEN 0 ELSE Len(s) - FirstIndex(s, ".")

\* the numeral times the scale of the suffix, truncated to an integer
ExactProduct(s, suffix) ==
  (DigitsVal(SelectSeq(s, IsDigit)) * Scale(suffix)) \div Pow10(Decimals(s))

\* the text of the value, trimmed, in lower case, without commas and
\* without the trailing +
Trimmed(v) == NoPlus(Replace(Lower(Strip(v.s)), ",", <<>>))

\* C11: for a text that, trimmed, in lower case and without commas, is a
\* decimal numeral with an optional k or m and an optional trailing +,
\* _parse_int returns the numeral times 1, 1,000 or 1,000,000, truncated to
\* an integer; a bool yields 0 or 1, an int itself, None yields None.
C11_NumeralTimesSuffix ==
  pc = "parsed"
    => /\ (value.t = "NoneType" => parsed = Return(PyNone))
       /\ (value.t = "bool"
             => parsed = Return(PyInt(IF value.b THEN 1 ELSE 0)))
       /\ (value.t = "int" => parsed = Return(value))
       /\ ((value.t = "str" /\ IsNumeral(NumeralOf(Trimmed(value))))
             => parsed = Return(PyInt(ExactProduct(NumeralOf(Trimmed(value)),
                                                   SuffixOf(Trimmed(value))))))

(***************************************************************************)
(* The properties of the keyword expander.                                 *)
(***************************************************************************)
\* the key with spaces for its underscores
Readable(key) == Replace(key, "_", <<" ">>)

\* the candidates behind the base phrase, in their fixed order
Candidates(key) ==
  << Readable(key) \o <<" ","a","p","p","s">>,
     <<"b","e","s","t"," ">> \o Readable(key) \o <<" ","a","p","p","s">>,
     <<"p","o","p","u","l","a","r"," ">> \o Readable(key)
       \o <<" ","a","p","p","s">>,
     <<"t","o","p"," ">> \o Readable(key)
       \o <<" ","a","n","d","r","o","i","d"," ","a","p","p","s">>,
     Readable(key) \o <<" ","a","p","p"," ","d","o","w","n","l","o","a","d">> >>

\* the list is the base phrase and, behind it, the candidates other than the
\* base phrase in their order
WellExpanded(list, key, base_phrase) ==
  /\ list # <<>>
  /\ Len(list) <= 6
  /\ \A i \in 1..Len(list) : list[i] # <<>>
  /\ \A i, j \in 1..Len(list) : i # j => list[i] # list[j]
  /\ list[1] = base_phrase
  /\ Tail(list) = SelectSeq(Candidates(key), LAMBDA c : c # base_phrase)

\* C12: the keyword list built for every key of the registry is not empty,
\* has at most six entries, none empty and no two equal, starts with the base
\* phrase of the key, and goes on with '{readable} apps', 'best {readable}
\* apps', 'popular {readable} apps', 'top {readable} android apps',
\* '{readable} app download' in this order; the lists the requests read are
\* the lists built.
C12_KeywordListsWellFormed ==
  /\ Len(built) <= Len(CATEGORY_QUERIES)
  /\ \A i \in 1..Len(built) :
       /\ built[i].key = CATEGORY_QUERIES[i].key
       /\ WellExpanded(built[i].keywords, CATEGORY_QUERIES[i].key,
                       CATEGORY_QUERIES[i].phrase)
  /\ pc = "built"
       => /\ built = CATEGORY_KEYWORDS
          /\ \A i \in 1..Len(CATEGORY_QUERIES) :
               KeywordsOf(CATEGORY_QUERIES[i].key) = built[i].keywords

\* the lists of all categories are built, among them the six phrases of a
\* key with an underscore
C12_AllBuilt ==
  /\ pc = "built"
  /\ Len(built) = Len(CATEGORY_QUERIES)
  /\ \E i \in 1..Len(built) :
       /\ Contains(built[i].key, <<"_">>)
       /\ Len(built[i].keywords) = 6

(***************************************************************************)
(* The counts of the category response.                                    *)
(***************************************************************************)
\* a record without an identifier and without a URL
Unaddressed(rec) == ~Truthy(Get(rec.appId)) /\ ~Truthy(Get(rec.url))

\* C14: every search call that returns adds the size of its batch to the
\* collected raw records, records without identifier and URL included, and
\* total_raw_collected is their number; no returned app comes from a record
\* that has neither identifier nor URL, and none is counted in
\* total_returned.
C14_UnaddressedCountedNotReturned ==
  [][ (pc = "gather" /\ calls' # calls) =>
        /\ Len(raw_results')
             = Len(raw_results)
                 + (IF search_error' = "" THEN Len(apps_batch') ELSE 0)
        /\ (pc' = "done" /\ resp'.status = 200) =>
             /\ resp'.total_raw_collected = Len(raw_results')
             /\ \A i \in 1..Len(resp'.apps) :
                  \E k \in 1..Len(raw_results') :
                    /\ ~Unaddressed(raw_results'[k])
                    /\ resp'.apps[i].url = AppUrl(raw_results'[k])
                    /\ resp'.apps[i].name = GetOr(raw_results'[k].title, "N/A")
             /\ resp'.total_returned
                  <= Cardinality({k \in 1..Len(raw_results') :
                                    ~Unaddressed(raw_results'[k])})
    ]_vars

\* a response counts a record without identifier and URL among the raw
\* records and returns another record
C14_UnaddressedCounted ==
  /\ pc = "done"
  /\ req.endpoint = "scrape"
  /\ resp.status = 200
  /\ \E k \in 1..Len(raw_results) : Unaddressed(raw_results[k])
  /\ resp.total_raw_collected = Len(raw_results)
  /\ resp.total_raw_collected > resp.total_unique_after_dedup
  /\ resp.total_returned >= 1

(***************************************************************************)
(* The answers to requests that are turned down.                           *)
(***************************************************************************)
\* C15: a scrape request for a category that is not in the registry is
\* answered with status 404, an error message and a list of suggested
\* categories.
C15_UnknownCategoryIs404 ==
  (pc = "done" /\ req.endpoint = "scrape"
     /\ ~HasKey(CATEGORY_QUERIES, req.normalized_category))
    => /\ resp.status = 404
       /\ resp.error # ""
       /\ resp.suggested_categories # <<>>

\* the places among the deduplicated records of those that pass the filter
\* of the request
Passing ==
  {k \in 1..Len(deduped) :
     req.underperforming_only
       => /\ GetScore(deduped[k].value.score).t = "float"
          /\ GetScore(deduped[k].value.score).v < 40}

\* C16: the limit applies behind the deduplication and the filter: the apps
\* of a successful category response are the first min(limit, n) of the n
\* deduplicated records that pass the filter (all of them without the
\* filter), in their order, and total_returned is min(limit, n).
C16_LimitAfterFilter ==
  (pc = "done" /\ req.endpoint = "scrape" /\ resp.status = 200)
    => /\ resp.total_unique_after_dedup = Len(deduped)
       /\ resp.total_returned
            = (IF Cardinality(Passing) < req.limit THEN Cardinality(Passing)
               ELSE req.limit)
       /\ Len(resp.apps) = resp.total_returned
       /\ \A i \in 1..Len(resp.apps) :
            \E k \in Passing :
              /\ Cardinality({j \in Passing : j < k}) = i - 1
              /\ resp.apps[i].url = AppUrl(deduped[k].value)
              /\ resp.apps[i].name = GetOr(deduped[k].value.title, "N/A")
              /\ resp.apps[i].rating = GetScore(deduped[k].value.score)

\* the filter drops the first unique record and the limit the last one
C16_FilteredThenLimited ==
  /\ pc = "done"
  /\ req.endpoint = "scrape"
  /\ resp.status = 200
  /\ req.underperforming_only
  /\ 1 \notin Passing
  /\ Cardinality(Passing) >= 1
  /\ Len(resp.apps) = req.limit

\* C17: a request that is turned down up front (a category that is not in
\* the registry, a keyword that is empty or blank) is answered without a
\* search call to the provider.
C17_RejectedWithoutSearch ==
  /\ (pc = "done" /\ req.endpoint = "scrape"
        /\ ~HasKey(CATEGORY_QUERIES, req.normalized_category))
       => (calls = <<>> /\ resp.status \notin {0, 200})
  /\ (pc = "done" /\ req.endpoint = "deep_scan"
        /\ \A i \in 1..Len(req.keyword) : req.keyword[i] = " ")
       => (calls = <<>> /\ resp.status \notin {0, 200})

\* a deep scan for a blank keyword is turned down
C17_BlankKeywordRejected ==
  /\ pc = "done"
  /\ req.endpoint = "deep_scan"
  /\ req.keyword = <<" ">>
  /\ resp.status = 400
  /\ calls = <<>>

(***************************************************************************)
(* The properties of requests served side by side.                         *)
(***************************************************************************)
\* dedup is the first-seen deduplication of raw
FirstSeenOf(raw, dedup) ==
  /\ \A i, j \in 1..Len(dedup) : i # j => dedup[i].key # dedup[j].key
  /\ \A k \in 1..Len(raw) :
       Truthy(Get(raw[k].appId)) => HasKey(dedup, Get(raw[k].appId))
  /\ \A i \in 1..Len(dedup) :
       /\ Met(raw, dedup[i].key)
       /\ dedup[i].value = raw[FirstAt(raw, dedup[i].key)]

\* the locals of a request hold what follows from its own raw records, and
\* the keyword list of its category as it was built
OwnState(local) ==
  /\ FirstSeenOf(local.raw_results, local.deduped)
  /\ local.pc = "gather"
       => local.keywords = KeywordsOf(local.req.normalized_category)
  /\ (local.pc = "done" /\ local.req.endpoint = "scrape"
        /\ local.resp.status = 200)
       => /\ local.resp.total_raw_collected = Len(local.raw_results)
          /\ local.resp.total_unique_after_dedup = Len(local.deduped)
          /\ \A i \in 1..Len(local.resp.apps) :
               \E k \in 1..Len(local.deduped) :
                 local.resp.apps[i].url = AppUrl(local.deduped[k].value)

\* a step changes the locals of one request only; a search call of that
\* request leaves its raw records or appends a batch to them
OwnStep ==
  \A r \in Requests :
    slots'[r] # slots[r]
      => /\ \A q \in Requests \ {r} : slots'[q] = slots[q]
         /\ slots[r].pc = "gather"
              => \E batch \in SeqsUpTo(SlotPool, MaxSlotRaw) :
                   slots'[r].raw_results = slots[r].raw_results \o batch

\* C13: however the steps of requests served side by side interleave, the
\* raw list, the deduplication, the counts and the response of a request
\* follow from the provider's answers to its own search calls: no request
\* changes the locals of another one, and every request reads the keyword
\* list of its category as built at startup.
C13_RequestsIndependent ==
  /\ [](\A r \in DOMAIN slots : OwnState(slots[r]))
  /\ [][OwnStep]_vars

\* two requests are in their gather loops, at different keywords and with
\* different records collected
C13_TwoGathering ==
  /\ DOMAIN slots = Requests
  /\ slots[1].pc = "gather"
  /\ slots[2].pc = "gather"
  /\ slots[1].kw_index # slots[2].kw_index
  /\ slots[1].raw_results # <<>>
  /\ slots[2].raw_results # <<>>
  /\ slots[1].raw_results # slots[2].raw_results

====
